---- MODULE Spec2Model ----
(***************************************************************************)
(* The check-in scheduling engine of plainwork/checked (db.ts): the date   *)
(* helpers formatLocalDate, today, parseDate, diffDays, normalizeDate,     *)
(* addDays and the two scheduling functions calculateNextDueDate and       *)
(* calculateMissedCount, modelled over the JavaScript Date semantics they  *)
(* rest on (local-time parsing, LocalTime/UTC conversion, MakeDay), and    *)
(* the schedule store built on them: createTeam, upsertSchedule,           *)
(* createCheckin, getSchedule, listDueCheckins and listUpcomingCheckins    *)
(* over the tables teams, checkin_schedules and checkins, as the request   *)
(* handlers of server.ts call them.                                        *)
(*                                                                         *)
(* Time values are counted in minutes instead of milliseconds (every       *)
(* instant that occurs is a whole minute), so one day is 1440 units where  *)
(* the source writes 86400000.                                             *)
(***************************************************************************)
EXTENDS Integers, Sequences, FiniteSets, TLC

VARIABLES
    tz,               \* the host's local time zone (process environment)
    engine,           \* how the Date parser treats a day past the month's end
    clock,            \* the instant `new Date()` reads, in minutes since the epoch
    dateA,            \* first date-string argument of the call
    dateB,            \* second date-string argument of the call (may be null)
    number,           \* numeric argument of the call (cadenceDays / days)
    pc,               \* which function has been applied ("init" before the call)
    retDate,          \* the returned string, for functions returning a date string
    retNum,           \* the returned number, for functions returning a number
    teams,            \* table teams: the ids of its rows
    nextTeamId,       \* the id AUTOINCREMENT gives the next row of teams
    checkin_schedules,\* table checkin_schedules: its rows
    checkins,         \* table checkins: per team, MAX(created_at) of its rows
    teamArg,          \* the team id of the request
    schedule,         \* what getSchedule returned to the team page
    dueCheckins,      \* what listDueCheckins returned to the check-ins page
    upcomingCheckins  \* what listUpcomingCheckins returned to the check-ins page

\* the stored tables
db == <<teams, nextTeamId, checkin_schedules, checkins>>
\* what a request carried and what was computed for its response
page == <<teamArg, schedule, dueCheckins, upcomingCheckins>>

vars == <<tz, engine, clock, dateA, dateB, number, pc, retDate, retNum, db, page>>

(***************************************************************************)
(* Bounds of the model.                                                    *)
(***************************************************************************)
\* each window of input dates holds Span + 1 consecutive days
Span == 2
\* integer cadences / day counts range over -MaxCadence .. MaxCadence
MaxCadence == 8
\* at most MaxTeams teams are ever created
MaxTeams == 2
\* the clock of the schedule store advances at most MaxTicks days
MaxTicks == 2

(***************************************************************************)
(* JavaScript values.                                                      *)
(*   strings : records; form "ymd" is the text dddd-dd-dd with the digits  *)
(*             y, m, d; the other forms are null/undefined, "", a text     *)
(*             that is no date ("not-a-date") and "NaN-NaN-NaN".           *)
(*   numbers : records; kind "fin" is the finite number h / 2 (so halves   *)
(*             are representable), "nan" is NaN, "inf" is h * Infinity.    *)
(***************************************************************************)
Ymd(y, m, d) == [form |-> "ymd", y |-> y, m |-> m, d |-> d]
Null == [form |-> "null", y |-> 0, m |-> 0, d |-> 0]
EmptyString == [form |-> "empty", y |-> 0, m |-> 0, d |-> 0]
NotADate == [form |-> "text", y |-> 0, m |-> 0, d |-> 0]
NaNString == [form |-> "nan", y |-> 0, m |-> 0, d |-> 0]

Int2Num(n) == [kind |-> "fin", h |-> 2 * n]
Halves(h) == [kind |-> "fin", h |-> h]
NaN == [kind |-> "nan", h |-> 0]
Infinity == [kind |-> "inf", h |-> 1]
NegInfinity == [kind |-> "inf", h |-> -1]

\* !value : null, undefined and "" are falsy
Falsy(value) == value.form \in {"null", "empty"}
\* Number.isFinite
IsFinite(x) == x.kind = "fin"
\* x <= 0 for a number (NaN compares false)
LeqZero(x) == \/ x.kind = "fin" /\ x.h <= 0
              \/ x.kind = "inf" /\ x.h < 0
IsInteger(x) == x.kind = "fin" /\ x.h % 2 = 0
\* ToIntegerOrInfinity of the finite number h / 2: truncation toward zero
TruncHalves(h) == IF h >= 0 THEN h \div 2 ELSE -((-h) \div 2)

(***************************************************************************)
(* Calendar arithmetic of the Date object (ECMAScript DayFromYear,         *)
(* YearFromTime, MonthFromTime, DateFromTime, MakeDay) on the proleptic    *)
(* Gregorian calendar; day 0 is 1970-01-01.                                *)
(***************************************************************************)
IsLeapYear(y) == (y % 4 = 0 /\ y % 100 # 0) \/ y % 400 = 0

DaysInMonth(y, m) ==
    IF m = 2 THEN (IF IsLeapYear(y) THEN 29 ELSE 28)
    ELSE IF m \in {4, 6, 9, 11} THEN 30 ELSE 31

\* day number of 1 January of year y
DayFromYear(y) ==
    365 * (y - 1970) + (y - 1969) \div 4 - (y - 1901) \div 100 + (y - 1601) \div 400

\* days of year y that precede its month m (m in 1..12)
MonthStart(m, y) ==
    <<0, 31, 59, 90, 120, 151, 181, 212, 243, 273, 304, 334>>[m]
        + (IF m > 2 /\ IsLeapYear(y) THEN 1 ELSE 0)

\* day number of the civil date y-m-d (m in 1..12, d any integer)
DaysFromCivil(y, m, d) == DayFromYear(y) + MonthStart(m, y) + d - 1

\* the year a day number falls in (day numbers from 1970 on)
YearFromDay(day) ==
    CHOOSE y \in (1970 + day \div 366)..(1971 + day \div 365) :
        DayFromYear(y) <= day /\ day < DayFromYear(y + 1)

\* the month of year y holding the day with index dayInYear (from 0)
MonthFromDayInYear(dayInYear, y) ==
    CHOOSE m \in 1..12 :
        /\ MonthStart(m, y) <= dayInYear
        /\ m = 12 \/ dayInYear < MonthStart(m + 1, y)

CivilInMonth(y, m, dayInYear) == [y |-> y, m |-> m, d |-> dayInYear - MonthStart(m, y) + 1]
CivilInYear(y, dayInYear) == CivilInMonth(y, MonthFromDayInYear(dayInYear, y), dayInYear)
CivilOfYear(y, day) == CivilInYear(y, day - DayFromYear(y))

\* civil date (year, month, day of month) of a day number
CivilFromDays(day) == CivilOfYear(YearFromDay(day), day)

\* MakeDay(year, month, date) with month counted from 0 and date unbounded
MakeDay(year, month0, date) ==
    DaysFromCivil(year + month0 \div 12, (month0 % 12) + 1, 1) + date - 1

\* msPerDay, in the model's unit (minutes)
MinutesPerDay == 1440

\* Day(t) and MakeDate(day, 0)
Day(t) == t \div MinutesPerDay
MakeDate(day) == day * MinutesPerDay

(***************************************************************************)
(* The host's local time zone.  "UTC" has no offset; "America/New_York"    *)
(* is UTC-5 with daylight saving (UTC-4) from 02:00 on the second Sunday   *)
(* of March to 02:00 on the first Sunday of November.                      *)
(***************************************************************************)
Zones == {"UTC", "America/New_York"}

StdOffset(zone) == IF zone = "America/New_York" THEN -300 ELSE 0
DstOffset(zone) == IF zone = "America/New_York" THEN -240 ELSE 0

\* the first Sunday on or after day number d1 (day 0 was a Thursday)
SundayFrom(d1) == d1 + ((7 - ((d1 + 4) % 7)) % 7)
\* day number of the first Sunday of month m of year y
FirstSunday(y, m) == SundayFrom(DaysFromCivil(y, m, 1))

\* the instants (UTC) at which daylight saving starts and ends in year y
DstStartUTC(y) == MakeDate(FirstSunday(y, 3) + 7) + 120 + 300
DstEndUTC(y) == MakeDate(FirstSunday(y, 11)) + 120 + 240

InDstOfYear(y, t) == t >= DstStartUTC(y) /\ t < DstEndUTC(y)
InDst(zone, t) == zone = "America/New_York" /\ InDstOfYear(YearFromDay(Day(t)), t)

\* offset of local time from UTC at the instant t
LocalTZA(t) == IF InDst(tz, t) THEN DstOffset(tz) ELSE StdOffset(tz)

\* LocalTime(t): the local wall-clock value of the instant t
LocalTime(t) == t + LocalTZA(t)

\* UTC(tl): the instant of the local wall-clock value tl; a repeated local
\* time denotes its first occurrence, a skipped one is read with the offset
\* in force before the transition
UTC(tl) ==
    IF LocalTime(tl - DstOffset(tz)) = tl THEN tl - DstOffset(tz)
    ELSE tl - StdOffset(tz)

(***************************************************************************)
(* Date objects: [valid, time]; an invalid Date has time value NaN.        *)
(***************************************************************************)
InvalidDate == [valid |-> FALSE, time |-> 0]
DateOf(t) == [valid |-> TRUE, time |-> t]

\* the two behaviours of Date parsers for a day of month past the month's
\* end (2024-02-30): rejected, or carried into the next month
Engines == {"strict", "lenient"}

\* /^\d{4}-\d{2}-\d{2}$/.test(value)
MatchesDatePattern(value) ==
    /\ value.form = "ymd"
    /\ value.y \in 0..9999 /\ value.m \in 0..99 /\ value.d \in 0..99

\* new Date(`${value}T00:00:00`): local midnight of the date, or Invalid Date
NewDateLocalMidnight(value) ==
    IF ~MatchesDatePattern(value) THEN InvalidDate
    ELSE IF value.m \notin 1..12 \/ value.d \notin 1..31 THEN InvalidDate
    ELSE IF value.d > DaysInMonth(value.y, value.m) /\ engine = "strict"
         THEN InvalidDate
    ELSE DateOf(UTC(MakeDate(MakeDay(value.y, value.m - 1, value.d))))

\* `${year}-${month}-${day}` with month and day padded to two digits
FormatFields(f) == Ymd(f.y, f.m, f.d)

\* getFullYear(), getMonth() + 1, getDate() of a valid Date
LocalFields(date) == CivilFromDays(Day(LocalTime(date.time)))

formatLocalDate(date) ==
    IF ~date.valid THEN NaNString ELSE FormatFields(LocalFields(date))

today == formatLocalDate(DateOf(clock))

parseDate(value) == NewDateLocalMidnight(value)

\* diffDays, from the two parsed Dates on
DiffOfDates(start, end) ==
    IF ~start.valid \/ ~end.valid THEN 0
    ELSE (end.time - start.time) \div MinutesPerDay

diffDays(startDate, endDate) == DiffOfDates(parseDate(startDate), parseDate(endDate))

\* calculateMissedCount, from daysLate on
MissedFromDaysLate(daysLate, cadenceDays) ==
    IF daysLate <= 0 THEN 0
    ELSE (2 * (daysLate - 1)) \div cadenceDays.h + 1

\* referenceDate: the caller's argument, or today when it is omitted
calculateMissedCount(nextDue, cadenceDays, referenceDate) ==
    IF Falsy(nextDue) \/ ~IsFinite(cadenceDays) \/ LeqZero(cadenceDays) THEN 0
    ELSE MissedFromDaysLate(diffDays(nextDue, referenceDate), cadenceDays)

\* normalizeDate without the test of the date pattern
normalizeDate_NoPatternCheck(value) == IF Falsy(value) THEN today ELSE value

normalizeDate(value) ==
    IF Falsy(value) THEN today
    ELSE IF ~MatchesDatePattern(value) THEN today
    ELSE value

\* setDate on the local fields f and local time of day of a Date: MakeDay with
\* the new day of month, back to an instant
SetDateFields(f, timeInDay, dt) ==
    DateOf(UTC(MakeDate(MakeDay(f.y, f.m - 1, dt)) + timeInDay))

\* getDate() + days, converted to an integer by setDate
NewDayOfMonth(f, days) == TruncHalves(2 * f.d + days.h)

SetDateLocal(tl, f, days) == SetDateFields(f, tl % MinutesPerDay, NewDayOfMonth(f, days))

\* date.setDate(date.getDate() + days) on a Date, days a number
SetDate(date, days) ==
    IF ~date.valid \/ ~IsFinite(days) THEN InvalidDate
    ELSE SetDateLocal(LocalTime(date.time), LocalFields(date), days)

addDays(dateString, days) ==
    formatLocalDate(SetDate(NewDateLocalMidnight(dateString), days))

\* NextDueFromElapsed with the interval count not rounded up to the next boundary
NextDueFromElapsed_NoRoundUp(startDate, cadenceDays, lastDate, daysSinceStart) ==
    IF daysSinceStart < 0 THEN startDate
    ELSE IF (2 * daysSinceStart) % cadenceDays.h = 0
         THEN addDays(lastDate, cadenceDays)
    ELSE addDays(startDate,
                 Halves(((2 * daysSinceStart) \div cadenceDays.h) * cadenceDays.h))

\* NextDueFromElapsed without the check for a check-in before the start date
NextDueFromElapsed_NoAnomalyCheck(startDate, cadenceDays, lastDate, daysSinceStart) ==
    IF (2 * daysSinceStart) % cadenceDays.h = 0
    THEN addDays(lastDate, cadenceDays)
    ELSE addDays(startDate,
                 Halves(((2 * daysSinceStart) \div cadenceDays.h + 1) * cadenceDays.h))

\* calculateNextDueDate, from daysSinceStart on
NextDueFromElapsed(startDate, cadenceDays, lastDate, daysSinceStart) ==
    IF daysSinceStart < 0 THEN startDate
    ELSE IF (2 * daysSinceStart) % cadenceDays.h = 0
         THEN addDays(lastDate, cadenceDays)
    ELSE addDays(startDate,
                 Halves(((2 * daysSinceStart) \div cadenceDays.h + 1) * cadenceDays.h))

\* calculateNextDueDate, from the normalized last check-in date on
NextDueFromLast(startDate, cadenceDays, lastDate) ==
    NextDueFromElapsed(startDate, cadenceDays, lastDate, diffDays(startDate, lastDate))

\* NextDueFromStart without the early return for an absent last check-in
NextDueFromStart_NoAbsentCheck(startDate, cadenceDays, lastCheckinDate) ==
    IF ~IsFinite(cadenceDays) \/ LeqZero(cadenceDays) THEN startDate
    ELSE NextDueFromLast(startDate, cadenceDays, normalizeDate(lastCheckinDate))

\* calculateNextDueDate, from the normalized start date on
NextDueFromStart(startDate, cadenceDays, lastCheckinDate) ==
    IF ~IsFinite(cadenceDays) \/ LeqZero(cadenceDays) THEN startDate
    ELSE IF Falsy(lastCheckinDate) THEN startDate
    ELSE NextDueFromLast(startDate, cadenceDays, normalizeDate(lastCheckinDate))

calculateNextDueDate(startDateInput, cadenceDays, lastCheckinDate) ==
    NextDueFromStart(normalizeDate(startDateInput), cadenceDays, lastCheckinDate)

(***************************************************************************)
(* The civil calendar, stepped one day at a time: the reference against    *)
(* which the results of the date helpers are read.                         *)
(***************************************************************************)
IsCalendarDate(value) ==
    /\ value.form = "ymd"
    /\ value.y \in 1000..9999
    /\ value.m \in 1..12
    /\ value.d \in 1..DaysInMonth(value.y, value.m)

FirstOfNextMonth(date) ==
    IF date.m < 12 THEN Ymd(date.y, date.m + 1, 1) ELSE Ymd(date.y + 1, 1, 1)

LastOfPreviousMonth(date) ==
    IF date.m > 1 THEN Ymd(date.y, date.m - 1, DaysInMonth(date.y, date.m - 1))
    ELSE Ymd(date.y - 1, 12, 31)

\* the calendar date n days after (before, for negative n) a calendar date,
\* walking the calendar month by month
RECURSIVE ShiftDate(_, _)
ShiftDate(date, n) ==
    IF n >= 0
    THEN IF date.d + n <= DaysInMonth(date.y, date.m)
         THEN Ymd(date.y, date.m, date.d + n)
         ELSE ShiftDate(FirstOfNextMonth(date),
                        n - (DaysInMonth(date.y, date.m) - date.d + 1))
    ELSE IF date.d + n >= 1
         THEN Ymd(date.y, date.m, date.d + n)
         ELSE ShiftDate(LastOfPreviousMonth(date), n + date.d)

\* a < b for canonical date strings (the order of their texts)
DateLess(a, b) ==
    \/ a.y < b.y
    \/ a.y = b.y /\ a.m < b.m
    \/ a.y = b.y /\ a.m = b.m /\ a.d < b.d

\* the number of calendar days from date a to date b
CalendarDays(a, b) == DaysFromCivil(b.y, b.m, b.d) - DaysFromCivil(a.y, a.m, a.d)

(***************************************************************************)
(* The schedule store.  A row of checkin_schedules is [team_id,            *)
(* cadence_days, start_date, next_due]; created_at values are instants     *)
(* (the ISO texts of now() are ordered as their instants are).  Only       *)
(* MAX(created_at) of a team's check-ins is ever read, so that is what     *)
(* checkins keeps for each team.                                           *)
(***************************************************************************)
TeamIds == 1..MaxTeams

\* MAX(created_at) over no rows: null
NoCheckin == -1

\* getSchedule: null, for a team without a schedule row
NoSchedule ==
    [team_id |-> 0, cadence_days |-> NaN, start_date |-> Null, next_due |-> Null,
     missed_count |-> 0]

\* the tables after the CREATE TABLE IF NOT EXISTS statements on a new file
EmptyDatabase ==
    /\ teams = {}
    /\ nextTeamId = 1
    /\ checkin_schedules = {}
    /\ checkins = [t \in TeamIds |-> NoCheckin]

\* no request has been served
NoRequest ==
    /\ teamArg = 0
    /\ schedule = NoSchedule
    /\ dueCheckins = <<>>
    /\ upcomingCheckins = <<>>

\* new Date().toISOString()
now == clock

\* a < b for strings, in the order of their UTF-16 code units: "" before the
\* digits of a date, those before "NaN-NaN-NaN", that before "not-a-date"
StringRank(a) ==
    IF a.form = "empty" THEN 0 ELSE IF a.form = "ymd" THEN 1
    ELSE IF a.form = "nan" THEN 2 ELSE 3

StringLess(a, b) ==
    \/ StringRank(a) < StringRank(b)
    \/ /\ a.form = "ymd" /\ b.form = "ymd"
       /\ \/ a.y < b.y
          \/ a.y = b.y /\ a.m < b.m
          \/ a.y = b.y /\ a.m = b.m /\ a.d < b.d

toLocalDate(value) ==
    IF value = NoCheckin THEN Null ELSE formatLocalDate(DateOf(value))

\* SELECT * FROM checkin_schedules WHERE team_id = ?
ScheduleRows(teamId) == {s \in checkin_schedules : s.team_id = teamId}

getLastTeamCheckinDate(teamId) == toLocalDate(checkins[teamId])

\* schedule.start_date || schedule.next_due || today()
StartDateOf(row) ==
    IF ~Falsy(row.start_date) THEN row.start_date
    ELSE IF ~Falsy(row.next_due) THEN row.next_due
    ELSE today

\* ScheduleResult with the stored next_due column in place of the computed date
ScheduleResult_StoredNextDue(row, startDate, nextDue) ==
    [team_id |-> row.team_id, cadence_days |-> row.cadence_days,
     start_date |-> startDate, next_due |-> row.next_due,
     missed_count |-> calculateMissedCount(row.next_due, row.cadence_days, today)]

\* ScheduleResult with the missed count taken from the stored next_due column
ScheduleResult_MissedFromStored(row, startDate, nextDue) ==
    [team_id |-> row.team_id, cadence_days |-> row.cadence_days,
     start_date |-> startDate, next_due |-> nextDue,
     missed_count |-> calculateMissedCount(row.next_due, row.cadence_days, today)]

\* the object getSchedule returns, from nextDue on
ScheduleResult(row, startDate, nextDue) ==
    [team_id |-> row.team_id, cadence_days |-> row.cadence_days,
     start_date |-> startDate, next_due |-> nextDue,
     missed_count |-> calculateMissedCount(nextDue, row.cadence_days, today)]

\* ResolveSchedule that leaves the last check-in out of the computation
ResolveSchedule_IgnoresCheckins(row, startDate, lastCheckinDate) ==
    ScheduleResult(row, startDate,
                   calculateNextDueDate(startDate, row.cadence_days, Null))

\* getSchedule, from startDate and lastCheckinDate on
ResolveSchedule(row, startDate, lastCheckinDate) ==
    ScheduleResult(row, startDate,
                   calculateNextDueDate(startDate, row.cadence_days, lastCheckinDate))

\* getSchedule, with the team's latest created_at given
ScheduleWithLast(teamId, lastCheckin) ==
    IF ScheduleRows(teamId) = {} THEN NoSchedule
    ELSE ResolveSchedule(CHOOSE s \in ScheduleRows(teamId) : TRUE,
                         StartDateOf(CHOOSE s \in ScheduleRows(teamId) : TRUE),
                         toLocalDate(lastCheckin))

getSchedule(teamId) == ScheduleWithLast(teamId, checkins[teamId])

\* the rows of listScheduledTeams from team id teamId on; the teams are taken
\* in the order of their ids (ORDER BY t.name, the names being in that order)
RECURSIVE ScheduledTeamsFrom(_)
ScheduledTeamsFrom(teamId) ==
    IF teamId > MaxTeams THEN <<>>
    ELSE (IF teamId \in teams /\ ScheduleRows(teamId) # {}
          THEN <<[team_id |-> teamId,
                  start_date |-> (CHOOSE s \in ScheduleRows(teamId) : TRUE).start_date,
                  cadence_days |-> (CHOOSE s \in ScheduleRows(teamId) : TRUE).cadence_days,
                  last_checkin_at |-> checkins[teamId]]>>
          ELSE <<>>) \o ScheduledTeamsFrom(teamId + 1)

listScheduledTeams == ScheduledTeamsFrom(1)

\* the row a list maps a scheduled team to, from nextDue on
DueRow(row, nextDue, referenceDate) ==
    [team_id |-> row.team_id, start_date |-> row.start_date,
     cadence_days |-> row.cadence_days, last_checkin_at |-> row.last_checkin_at,
     next_due |-> nextDue,
     missed_count |-> calculateMissedCount(nextDue, row.cadence_days, referenceDate)]

UpcomingRow(row, nextDue) ==
    [team_id |-> row.team_id, start_date |-> row.start_date,
     cadence_days |-> row.cadence_days, last_checkin_at |-> row.last_checkin_at,
     next_due |-> nextDue]

\* the next due date a list computes for a row of listScheduledTeams
RowNextDue(row) ==
    calculateNextDueDate(row.start_date, row.cadence_days, toLocalDate(row.last_checkin_at))

\* rows.map(...)
RECURSIVE MapDue(_, _)
MapDue(rows, referenceDate) ==
    IF rows = <<>> THEN <<>>
    ELSE <<DueRow(Head(rows), RowNextDue(Head(rows)), referenceDate)>>
         \o MapDue(Tail(rows), referenceDate)

RECURSIVE MapUpcoming(_)
MapUpcoming(rows) ==
    IF rows = <<>> THEN <<>>
    ELSE <<UpcomingRow(Head(rows), RowNextDue(Head(rows)))>> \o MapUpcoming(Tail(rows))

\* .filter(row => row.next_due <= referenceDate)
RECURSIVE FilterDue(_, _)
FilterDue(rows, referenceDate) ==
    IF rows = <<>> THEN <<>>
    ELSE (IF ~StringLess(referenceDate, Head(rows).next_due) THEN <<Head(rows)>> ELSE <<>>)
         \o FilterDue(Tail(rows), referenceDate)

\* .filter(row => row.next_due > referenceDate)
RECURSIVE FilterUpcoming(_, _)
FilterUpcoming(rows, referenceDate) ==
    IF rows = <<>> THEN <<>>
    ELSE (IF StringLess(referenceDate, Head(rows).next_due) THEN <<Head(rows)>> ELSE <<>>)
         \o FilterUpcoming(Tail(rows), referenceDate)

\* row put into a sorted array before the first element that is not smaller
RECURSIVE InsertByNextDue(_, _)
InsertByNextDue(row, sorted) ==
    IF sorted = <<>> THEN <<row>>
    ELSE IF StringLess(Head(sorted).next_due, row.next_due)
         THEN <<Head(sorted)>> \o InsertByNextDue(row, Tail(sorted))
    ELSE <<row>> \o sorted

\* the rows left in the order of listScheduledTeams
SortByNextDue_Unsorted(rows) == rows

\* .sort((a, b) => a.next_due.localeCompare(b.next_due)), a stable sort
RECURSIVE SortByNextDue(_)
SortByNextDue(rows) ==
    IF rows = <<>> THEN <<>>
    ELSE InsertByNextDue(Head(rows), SortByNextDue(Tail(rows)))

\* .slice(0, limit)
Slice(rows, limit) ==
    IF limit >= Len(rows) THEN rows ELSE SubSeq(rows, 1, limit)

listDueCheckins == SortByNextDue(FilterDue(MapDue(listScheduledTeams, today), today))

listUpcomingCheckins(limit) ==
    Slice(SortByNextDue(FilterUpcoming(MapUpcoming(listScheduledTeams), today)), limit)

(***************************************************************************)
(* Inputs.  The dates lie in windows around a year's end, a leap day and   *)
(* the two daylight-saving transitions of 2024, plus the dates of the      *)
(* documented scenarios; the other strings are "", "not-a-date" and the    *)
(* well-formed non-date 2024-02-30.                                        *)
(***************************************************************************)
WindowStarts == {Ymd(2023, 12, 30), Ymd(2024, 2, 28), Ymd(2024, 3, 9), Ymd(2024, 11, 2)}
ScenarioDates == {Ymd(2024, 1, 10), Ymd(2024, 1, 15), Ymd(2024, 1, 30), Ymd(2024, 3, 4)}
ValidDates == UNION {{ShiftDate(b, i) : i \in 0..Span} : b \in WindowStarts} \cup ScenarioDates
MalformedDates == {EmptyString, NotADate, Ymd(2024, 2, 30)}
DateInputs == ValidDates \cup MalformedDates
NumberInputs ==
    {Int2Num(n) : n \in (-MaxCadence)..MaxCadence} \cup {Halves(1), Halves(3), NaN, Infinity, NegInfinity}
\* 2024-01-01T12:00Z and 2024-03-11T03:30Z (still 10 March in New York)
ClockInputs ==
    {MakeDate(DaysFromCivil(2024, 1, 1)) + 720, MakeDate(DaysFromCivil(2024, 3, 11)) + 210}

Init ==
    /\ tz \in Zones
    /\ engine \in Engines
    /\ clock \in ClockInputs
    /\ dateA \in DateInputs
    /\ dateB \in DateInputs \cup {Null}
    /\ number \in NumberInputs
    /\ pc = "init"
    /\ retDate = Null
    /\ retNum = 0
    /\ EmptyDatabase
    /\ NoRequest

\* diffDays(dateA, dateB)
CallDiffDays ==
    /\ pc = "init"
    /\ pc' = "diffDays"
    /\ retNum' = diffDays(dateA, dateB)
    /\ UNCHANGED <<tz, engine, clock, dateA, dateB, number, retDate, db, page>>

\* addDays(dateA, number)
CallAddDays ==
    /\ pc = "init"
    /\ pc' = "addDays"
    /\ retDate' = addDays(dateA, number)
    /\ UNCHANGED <<tz, engine, clock, dateA, dateB, number, retNum, db, page>>

\* calculateNextDueDate(dateA, number, dateB)
CallCalculateNextDueDate ==
    /\ pc = "init"
    /\ pc' = "calculateNextDueDate"
    /\ retDate' = calculateNextDueDate(dateA, number, dateB)
    /\ UNCHANGED <<tz, engine, clock, dateA, dateB, number, retNum, db, page>>

\* calculateMissedCount(dateA, number, dateB), or calculateMissedCount(dateA,
\* number) with the reference date defaulting to today() when dateB is absent
CallCalculateMissedCount ==
    /\ pc = "init"
    /\ pc' = "calculateMissedCount"
    /\ retNum' = calculateMissedCount(dateA, number, IF dateB = Null THEN today ELSE dateB)
    /\ UNCHANGED <<tz, engine, clock, dateA, dateB, number, retDate, db, page>>

\* the schedule resolution of getSchedule: next due date from (start date,
\* cadence, last check-in date), then the missed count of that date today
CallResolveSchedule ==
    /\ pc = "init"
    /\ pc' = "resolveSchedule"
    /\ LET nextDue == calculateNextDueDate(dateA, number, dateB)
       IN /\ retDate' = nextDue
          /\ retNum' = calculateMissedCount(nextDue, number, today)
    /\ UNCHANGED <<tz, engine, clock, dateA, dateB, number, db, page>>

Next ==
    \/ CallDiffDays
    \/ CallAddDays
    \/ CallCalculateNextDueDate
    \/ CallCalculateMissedCount
    \/ CallResolveSchedule

Spec == Init /\ [][Next]_vars

(***************************************************************************)
(* The schedule store behind its request handlers.  Every database call    *)
(* of a handler is synchronous, so a handler is one step.  After a step,   *)
(* pc names the store function the handler called, teamArg, number and     *)
(* dateA are the team id, the cadence (or the limit) and the start date    *)
(* of the request, and retDate is the date string the function returned.   *)
(***************************************************************************)
CadenceInputs == {Int2Num(0), Int2Num(2), Halves(1)}
StartDateInputs == {EmptyString, Ymd(2024, 3, 10)}
LimitInputs == {1, 3}

\* 2024-03-10T15:00Z, the day the clocks of New York go forward
StartClock == MakeDate(DaysFromCivil(2024, 3, 10)) + 900

\* no date string of the store names a day past its month's end, so the
\* parser's treatment of one is without effect here
SysInit ==
    /\ tz \in Zones
    /\ engine = "strict"
    /\ clock = StartClock
    /\ dateA = Null
    /\ dateB = Null
    /\ number = Int2Num(0)
    /\ pc = "init"
    /\ retDate = Null
    /\ retNum = 0
    /\ EmptyDatabase
    /\ NoRequest

\* the request of a step: its team id, number and date string
Request(teamId, n, date) ==
    /\ teamArg' = teamId
    /\ number' = n
    /\ dateA' = date
    /\ dateB' = Null
    /\ retNum' = 0

\* the step renders no schedule and no list
NoPage ==
    /\ schedule' = NoSchedule
    /\ dueCheckins' = <<>>
    /\ upcomingCheckins' = <<>>

\* a day passes
Tick ==
    /\ clock < StartClock + MaxTicks * MinutesPerDay
    /\ clock' = clock + MinutesPerDay
    /\ pc' = "tick"
    /\ retDate' = Null
    /\ Request(0, Int2Num(0), Null)
    /\ NoPage
    /\ UNCHANGED <<tz, engine, db>>

\* POST /teams: createTeam
PostTeam ==
    /\ nextTeamId <= MaxTeams
    /\ teams' = teams \cup {nextTeamId}
    /\ nextTeamId' = nextTeamId + 1
    /\ pc' = "createTeam"
    /\ retDate' = Null
    /\ Request(nextTeamId, Int2Num(0), Null)
    /\ NoPage
    /\ UNCHANGED <<tz, engine, clock, checkin_schedules, checkins>>

\* POST /teams/:id/delete: deleteTeam; the rows of checkin_schedules and
\* checkins that reference the team go with it (ON DELETE CASCADE)
DeleteTeam(teamId) ==
    /\ teamId \in teams
    /\ teams' = teams \ {teamId}
    /\ checkin_schedules' = {s \in checkin_schedules : s.team_id # teamId}
    /\ checkins' = [checkins EXCEPT ![teamId] = NoCheckin]
    /\ pc' = "deleteTeam"
    /\ retDate' = Null
    /\ Request(teamId, Int2Num(0), Null)
    /\ NoPage
    /\ UNCHANGED <<tz, engine, clock, nextTeamId>>

\* upsertSchedule that inserts a row whether or not the team has one
WriteSchedule_AlwaysInsert(teamId, cadenceDays, startDate, nextDue) ==
    /\ checkin_schedules' = checkin_schedules \cup
           {[team_id |-> teamId, cadence_days |-> cadenceDays,
             start_date |-> startDate, next_due |-> startDate]}
    /\ retDate' = startDate

\* upsertSchedule, from `existing` on: UPDATE the team's row, or INSERT one
WriteSchedule(teamId, cadenceDays, startDate, nextDue) ==
    IF ScheduleRows(teamId) # {}
    THEN /\ checkin_schedules' =
                {IF s.team_id = teamId
                 THEN [s EXCEPT !.cadence_days = cadenceDays,
                                !.start_date = startDate, !.next_due = nextDue]
                 ELSE s : s \in checkin_schedules}
         /\ retDate' = nextDue
    ELSE /\ checkin_schedules' = checkin_schedules \cup
                {[team_id |-> teamId, cadence_days |-> cadenceDays,
                  start_date |-> startDate, next_due |-> startDate]}
         /\ retDate' = startDate

\* upsertSchedule, from the normalized start date on
UpsertFromStart(teamId, cadenceDays, startDate) ==
    WriteSchedule(teamId, cadenceDays, startDate,
                  calculateNextDueDate(startDate, cadenceDays,
                                       getLastTeamCheckinDate(teamId)))

upsertSchedule(teamId, cadenceDays, startDateInput) ==
    UpsertFromStart(teamId, cadenceDays, normalizeDate(startDateInput))

\* POST /teams/:id/schedule; for a team id that is not in teams the INSERT
\* of upsertSchedule fails on the foreign key and nothing is stored
PostSchedule(teamId, cadenceDays, startDate) ==
    /\ IF IsFinite(cadenceDays) /\ cadenceDays.h > 0 /\ teamId \in teams
       THEN /\ upsertSchedule(teamId, cadenceDays, startDate)
            /\ pc' = "upsertSchedule"
       ELSE /\ UNCHANGED checkin_schedules
            /\ retDate' = Null
            /\ pc' = "postSchedule"
    /\ Request(teamId, cadenceDays, startDate)
    /\ NoPage
    /\ UNCHANGED <<tz, engine, clock, teams, nextTeamId, checkins>>

\* MAX(created_at) of the team's rows after the INSERT of one created at now()
LastAfterInsert(teamId) ==
    IF checkins[teamId] = NoCheckin \/ checkins[teamId] < now THEN now
    ELSE checkins[teamId]

\* createCheckin, from the schedule it read on
AdvanceSchedule(teamId, found, nextDue) ==
    IF found # NoSchedule
    THEN /\ checkin_schedules' =
                {IF s.team_id = teamId THEN [s EXCEPT !.next_due = nextDue] ELSE s :
                 s \in checkin_schedules}
         /\ retDate' = nextDue
    ELSE /\ UNCHANGED checkin_schedules
         /\ retDate' = Null

\* createCheckin, after its INSERT
AfterCheckinInsert(teamId, found) ==
    AdvanceSchedule(teamId, found,
                    calculateNextDueDate(found.start_date, found.cadence_days, today))

createCheckin(teamId) ==
    /\ checkins' = [checkins EXCEPT ![teamId] = LastAfterInsert(teamId)]
    /\ AfterCheckinInsert(teamId, ScheduleWithLast(teamId, LastAfterInsert(teamId)))

\* POST /teams/:id/checkins, by a person of the team
PostCheckin(teamId) ==
    /\ teamId \in teams
    /\ createCheckin(teamId)
    /\ pc' = "createCheckin"
    /\ Request(teamId, Int2Num(0), Null)
    /\ NoPage
    /\ UNCHANGED <<tz, engine, clock, teams, nextTeamId>>

\* GET /teams/:id: getSchedule for the team's page
GetTeamPage(teamId) ==
    /\ teamId \in teams
    /\ schedule' = getSchedule(teamId)
    /\ dueCheckins' = <<>>
    /\ upcomingCheckins' = <<>>
    /\ pc' = "getSchedule"
    /\ retDate' = Null
    /\ Request(teamId, Int2Num(0), Null)
    /\ UNCHANGED <<tz, engine, clock, db>>

\* GET /checkins: listDueCheckins() and listUpcomingCheckins(limit)
GetCheckinsPage(limit) ==
    /\ dueCheckins' = listDueCheckins
    /\ upcomingCheckins' = listUpcomingCheckins(limit)
    /\ schedule' = NoSchedule
    /\ pc' = "listCheckins"
    /\ retDate' = Null
    /\ Request(0, Int2Num(limit), Null)
    /\ UNCHANGED <<tz, engine, clock, db>>

SysNext ==
    \/ Tick
    \/ PostTeam
    \/ \E t \in TeamIds : DeleteTeam(t)
    \/ \E t \in TeamIds, c \in CadenceInputs, d \in StartDateInputs : PostSchedule(t, c, d)
    \/ \E t \in TeamIds : PostCheckin(t)
    \/ \E t \in TeamIds : GetTeamPage(t)
    \/ \E n \in LimitInputs : GetCheckinsPage(n)

SysSpec == SysInit /\ [][SysNext]_vars

(***************************************************************************)
(* Properties.  In a state reached by a call, dateA, number and dateB are  *)
(* the arguments and retDate / retNum the result.                          *)
(***************************************************************************)
PositiveInteger(x) == IsInteger(x) /\ x.h > 0
\* the integer a whole number stands for
IntOf(x) == x.h \div 2

AfterNextDue == pc = "calculateNextDueDate"
AfterMissed == pc = "calculateMissedCount"

\* C1: with a valid canonical anchor, a positive integer cadence and the last
\* activity absent (null, undefined or ""), calculateNextDueDate returns the
\* anchor; anchor 2024-01-01, cadence 7, no activity, resolved on 2024-01-01,
\* gives next due 2024-01-01 and missed count 0.
C1_AbsentActivityReturnsAnchor ==
    /\ (/\ pc \in {"calculateNextDueDate", "resolveSchedule"}
        /\ IsCalendarDate(dateA) /\ PositiveInteger(number) /\ Falsy(dateB))
           => retDate = dateA
    /\ (/\ pc = "resolveSchedule"
        /\ dateA = Ymd(2024, 1, 1) /\ number = Int2Num(7) /\ Falsy(dateB)
        /\ today = Ymd(2024, 1, 1))
           => (retDate = Ymd(2024, 1, 1) /\ retNum = 0)

C1_Witness ==
    /\ pc = "resolveSchedule"
    /\ dateA = Ymd(2024, 1, 1) /\ number = Int2Num(7) /\ dateB = Null
    /\ today = Ymd(2024, 1, 1)
    /\ retDate = Ymd(2024, 1, 1) /\ retNum = 0

\* C2: with valid dates, a positive integer cadence and elapsed =
\* diffDays(anchor, last) >= 0 a multiple of the cadence, calculateNextDueDate
\* returns the date cadence days after the last activity; hence, with the
\* activity on the anchor, diffDays(anchor, result) equals the cadence.
C2_ExactMultipleRollsOnePeriod ==
    (/\ AfterNextDue
     /\ IsCalendarDate(dateA) /\ IsCalendarDate(dateB) /\ PositiveInteger(number)
     /\ diffDays(dateA, dateB) >= 0
     /\ diffDays(dateA, dateB) % IntOf(number) = 0)
        => /\ retDate = ShiftDate(dateB, IntOf(number))
           /\ dateB = dateA => diffDays(dateA, retDate) = IntOf(number)

\* C3: with valid dates, a positive integer cadence and elapsed =
\* diffDays(anchor, last) > 0 not a multiple of the cadence,
\* calculateNextDueDate returns the date k * cadence days after the anchor,
\* k = floor(elapsed / cadence) + 1; anchor 2024-01-01, cadence 7, activity
\* 2024-01-10 gives 2024-01-15.
C3_RoundsUpToNextBoundary ==
    /\ (/\ AfterNextDue
        /\ IsCalendarDate(dateA) /\ IsCalendarDate(dateB) /\ PositiveInteger(number)
        /\ diffDays(dateA, dateB) > 0
        /\ diffDays(dateA, dateB) % IntOf(number) # 0)
           => retDate = ShiftDate(dateA,
                  (diffDays(dateA, dateB) \div IntOf(number) + 1) * IntOf(number))
    /\ (/\ AfterNextDue
        /\ dateA = Ymd(2024, 1, 1) /\ number = Int2Num(7) /\ dateB = Ymd(2024, 1, 10))
           => retDate = Ymd(2024, 1, 15)

C3_Witness ==
    /\ AfterNextDue
    /\ dateA = Ymd(2024, 1, 1) /\ number = Int2Num(7) /\ dateB = Ymd(2024, 1, 10)
    /\ diffDays(dateA, dateB) = 9
    /\ retDate = Ymd(2024, 1, 15)

\* C4: with valid dates and a positive integer cadence, when the last activity
\* precedes the anchor (diffDays(anchor, last) < 0, which is the case whenever
\* it is an earlier calendar date), calculateNextDueDate returns the anchor.
C4_ActivityBeforeAnchorReturnsAnchor ==
    (/\ AfterNextDue
     /\ IsCalendarDate(dateA) /\ IsCalendarDate(dateB) /\ PositiveInteger(number)
     /\ diffDays(dateA, dateB) < 0 \/ DateLess(dateB, dateA))
        => retDate = dateA

C4_Witness ==
    /\ AfterNextDue
    /\ dateA = Ymd(2024, 1, 10) /\ number = Int2Num(7) /\ dateB = Ymd(2024, 1, 1)
    /\ diffDays(dateA, dateB) = -9
    /\ retDate = dateA

\* C5: whenever a last activity date is present, the date calculateNextDueDate
\* returns is strictly later than that date (stated here for the cases the
\* scheduling branches cover: valid dates and a positive integer cadence).
C5_ResultStrictlyAfterActivity ==
    (/\ AfterNextDue
     /\ IsCalendarDate(dateA) /\ IsCalendarDate(dateB) /\ PositiveInteger(number))
        => /\ IsCalendarDate(retDate)
           /\ DateLess(dateB, retDate)

\* the days from the anchor to the returned date
GridOffset == CalendarDays(dateA, retDate)

\* C6: with valid dates and a positive integer cadence, the returned date is
\* the earliest date anchor + n * cadence (n >= 0) strictly after the last
\* activity: it is on the anchor's grid, it is after the activity, and the grid
\* date before it (when there is one) is not after the activity.
C6_EarliestGridDateAfterActivity ==
    (/\ AfterNextDue
     /\ IsCalendarDate(dateA) /\ IsCalendarDate(dateB) /\ PositiveInteger(number))
        => /\ IsCalendarDate(retDate)
           /\ GridOffset >= 0
           /\ GridOffset % IntOf(number) = 0
           /\ DateLess(dateB, retDate)
           /\ GridOffset > 0 =>
                  ~DateLess(dateB, ShiftDate(dateA, GridOffset - IntOf(number)))

\* the reference date of a calculateMissedCount call
ReferenceDate == IF dateB = Null THEN today ELSE dateB

\* C7: for a non-empty next due date and a positive cadence,
\* calculateMissedCount returns 0 when daysLate = diffDays(nextDue, reference)
\* <= 0 and floor((daysLate - 1) / cadence) + 1 otherwise; so with cadence 7 a
\* reference 0, 1, 7, 8 days after the due date gives 0, 1, 1, 2, and due
\* 2024-01-15 with reference 2024-01-30 gives 3.
C7_MissedCountFormulaAndBoundaries ==
    /\ (AfterMissed /\ ~Falsy(dateA) /\ IsFinite(number) /\ number.h > 0)
           => retNum = (IF diffDays(dateA, ReferenceDate) <= 0 THEN 0
                        ELSE (2 * (diffDays(dateA, ReferenceDate) - 1)) \div number.h + 1)
    /\ (AfterMissed /\ IsCalendarDate(dateA) /\ IsCalendarDate(dateB) /\ number = Int2Num(7))
           => /\ CalendarDays(dateA, dateB) = 0 => retNum = 0
              /\ CalendarDays(dateA, dateB) = 1 => retNum = 1
              /\ CalendarDays(dateA, dateB) = 7 => retNum = 1
              /\ CalendarDays(dateA, dateB) = 8 => retNum = 2
              /\ (dateA = Ymd(2024, 1, 15) /\ dateB = Ymd(2024, 1, 30)) => retNum = 3

\* C8: when the cadence is not a positive integer (zero, negative, non-finite
\* or non-integer), calculateNextDueDate returns the anchor argument unchanged
\* whatever the last activity is, and calculateMissedCount returns 0, as it does
\* whenever the due date is empty (stated here for anchors of the form
\* dddd-dd-dd).
C8_DisabledCadenceFallsBack ==
    /\ (AfterNextDue /\ MatchesDatePattern(dateA) /\ ~PositiveInteger(number))
           => retDate = dateA
    /\ (AfterMissed /\ (~PositiveInteger(number) \/ Falsy(dateA)))
           => retNum = 0

\* C9: diffDays returns 0 when either argument does not parse, and for two
\* valid dates the whole number of calendar days from the first to the second,
\* negative when the second precedes the first, so that diffDays(a, b) =
\* -diffDays(b, a).
C9_DiffDaysCountsCalendarDays ==
    /\ (pc = "diffDays" /\ (~parseDate(dateA).valid \/ ~parseDate(dateB).valid))
           => retNum = 0
    /\ (pc = "diffDays" /\ IsCalendarDate(dateA) /\ IsCalendarDate(dateB))
           => /\ retNum = CalendarDays(dateA, dateB)
              /\ retNum = -diffDays(dateB, dateA)

\* C10: for a valid canonical date d and an integer n, addDays(d, n) is the
\* canonical date n calendar days from d, across month ends, year ends and
\* daylight-saving transitions, so that diffDays(d, addDays(d, n)) = n.
C10_AddDaysIsCalendarShift ==
    (pc = "addDays" /\ IsCalendarDate(dateA) /\ IsInteger(number))
        => /\ retDate = ShiftDate(dateA, IntOf(number))
           /\ diffDays(dateA, retDate) = IntOf(number)

RowOf(teamId) == CHOOSE s \in ScheduleRows(teamId) : TRUE
Scheduled(teamId) == teamId \in teams /\ ScheduleRows(teamId) # {}
Reads == {"getSchedule", "listCheckins"}

\* C11: a read (getSchedule, listDueCheckins) changes no stored row, and what it
\* reports is a function of the cadence, the anchor, the team's last check-in
\* date and the current date: two consecutive reads of schedules that agree on
\* these report the same next due date and missed count, and the row
\* listDueCheckins reports for a team agrees with getSchedule for that team.
C11_ReadsArePureFunctions ==
    [][/\ pc' \in Reads => UNCHANGED db
       /\ (/\ pc = "getSchedule" /\ pc' = "getSchedule"
           /\ schedule # NoSchedule /\ schedule' # NoSchedule
           /\ schedule'.cadence_days = schedule.cadence_days
           /\ schedule'.start_date = schedule.start_date
           /\ getLastTeamCheckinDate(teamArg') = getLastTeamCheckinDate(teamArg))
              => /\ schedule'.next_due = schedule.next_due
                 /\ schedule'.missed_count = schedule.missed_count
       /\ (pc = "getSchedule" /\ pc' = "listCheckins")
              => \A i \in DOMAIN dueCheckins' :
                     dueCheckins'[i].team_id = teamArg
                         => /\ dueCheckins'[i].next_due = schedule.next_due
                            /\ dueCheckins'[i].missed_count = schedule.missed_count
      ]_vars

\* a schedule has been read while another team has the same cadence, anchor
\* and last check-in date but another stored next_due
C11_Witness ==
    /\ pc = "getSchedule" /\ schedule # NoSchedule
    /\ \E t \in teams \ {teamArg} :
          /\ Scheduled(t)
          /\ RowOf(t).cadence_days = schedule.cadence_days
          /\ RowOf(t).start_date = schedule.start_date
          /\ getLastTeamCheckinDate(t) = getLastTeamCheckinDate(teamArg)
          /\ getLastTeamCheckinDate(t) # Null
          /\ RowOf(t).next_due # RowOf(teamArg).next_due

\* C13: whatever writes (createCheckin, upsertSchedule, deleteTeam) and reads
\* have been interleaved, a pair (next_due, missed_count) returned by a read is
\* consistent: the missed count is calculateMissedCount of the returned next
\* due date, for the period stored when the read ran, on the day of the read.
C13_ReturnedPairIsConsistent ==
    /\ (pc = "getSchedule" /\ schedule # NoSchedule)
           => /\ schedule.cadence_days = RowOf(teamArg).cadence_days
              /\ schedule.missed_count =
                     calculateMissedCount(schedule.next_due, schedule.cadence_days, today)
    /\ pc = "listCheckins"
           => \A i \in DOMAIN dueCheckins :
                  /\ dueCheckins[i].cadence_days = RowOf(dueCheckins[i].team_id).cadence_days
                  /\ dueCheckins[i].missed_count =
                         calculateMissedCount(dueCheckins[i].next_due,
                                              dueCheckins[i].cadence_days, today)

\* a read that followed a check-in and a change of the schedule reports an
\* overdue schedule
C13_Witness ==
    /\ pc = "getSchedule" /\ schedule # NoSchedule
    /\ checkins[teamArg] # NoCheckin
    /\ schedule.missed_count > 0
    /\ schedule.next_due # RowOf(teamArg).next_due

C15_StoredCadenceIsPositiveInteger ==
    \A s \in checkin_schedules :
        /\ PositiveInteger(s.cadence_days)
        /\ MatchesDatePattern(s.start_date)

\* the rows of a list that are about team t
RowsAbout(list, t) == {i \in DOMAIN list : list[i].team_id = t}
SortedByNextDue(list) ==
    \A i, j \in DOMAIN list : i < j => ~DateLess(list[j].next_due, list[i].next_due)

\* C16: when both lists are computed on the same day, every row of
\* listDueCheckins has next_due <= today and every row of listUpcomingCheckins
\* has next_due > today, both are sorted by next_due ascending, the upcoming
\* list is the first `limit` rows of the unlimited one, and with a limit of at
\* least the number of teams every scheduled team is in exactly one of the two
\* lists (and no other team in either).
C16_DueAndUpcomingPartition ==
    pc = "listCheckins"
        => /\ \A i \in DOMAIN dueCheckins : ~DateLess(today, dueCheckins[i].next_due)
           /\ \A i \in DOMAIN upcomingCheckins : DateLess(today, upcomingCheckins[i].next_due)
           /\ SortedByNextDue(dueCheckins)
           /\ SortedByNextDue(upcomingCheckins)
           /\ Len(upcomingCheckins) <= IntOf(number)
           /\ \A i \in DOMAIN upcomingCheckins :
                  upcomingCheckins[i] = listUpcomingCheckins(MaxTeams)[i]
           /\ Len(listUpcomingCheckins(MaxTeams)) >= IntOf(number)
                  => Len(upcomingCheckins) = IntOf(number)
           /\ IntOf(number) >= Cardinality(teams)
                  => \A t \in TeamIds :
                         Cardinality(RowsAbout(dueCheckins, t))
                             + Cardinality(RowsAbout(upcomingCheckins, t))
                         = (IF Scheduled(t) THEN 1 ELSE 0)
           /\ \A t \in TeamIds :
                  Cardinality(RowsAbout(dueCheckins, t))
                      + Cardinality(RowsAbout(listUpcomingCheckins(MaxTeams), t))
                  = (IF Scheduled(t) THEN 1 ELSE 0)

\* two teams are upcoming, the one created later due first, and the limit 1
\* keeps only that one
C16_Witness ==
    /\ pc = "listCheckins" /\ number = Int2Num(1)
    /\ dueCheckins = <<>>
    /\ Len(upcomingCheckins) = 1 /\ upcomingCheckins[1].team_id = 2
    /\ Len(listUpcomingCheckins(MaxTeams)) = 2
    /\ DateLess(upcomingCheckins[1].next_due, listUpcomingCheckins(MaxTeams)[2].next_due)

\* the rows of checkin_schedules that are not about team t
RowsOfOthers(rows, t) == {s \in rows : s.team_id # t}

\* C17: a team has at most one row of checkin_schedules, and only teams that
\* exist have one; upsertSchedule leaves the team with exactly one row, holding
\* the cadence and the (normalized) start date of the call, whether it created
\* or replaced it, and leaves the rows of other teams as they were; deleting a
\* team removes its row and no other.
C17_OneCadencePerTeam ==
    /\ [](\A t \in TeamIds :
              /\ Cardinality(ScheduleRows(t)) <= 1
              /\ ScheduleRows(t) # {} => t \in teams)
    /\ [][/\ pc' = "upsertSchedule"
              => /\ \E s \in checkin_schedules' :
                        /\ {r \in checkin_schedules' : r.team_id = teamArg'} = {s}
                        /\ s.cadence_days = number'
                        /\ s.start_date = normalizeDate(dateA')
                 /\ RowsOfOthers(checkin_schedules', teamArg')
                        = RowsOfOthers(checkin_schedules, teamArg')
          /\ pc' = "deleteTeam"
              => /\ {r \in checkin_schedules' : r.team_id = teamArg'} = {}
                 /\ RowsOfOthers(checkin_schedules', teamArg')
                        = RowsOfOthers(checkin_schedules, teamArg')
         ]_vars

\* a second upsertSchedule has replaced the row of a team while another team
\* has a row too
C17_Witness ==
    /\ pc = "upsertSchedule"
    /\ Cardinality(checkin_schedules) = 2
    /\ Cardinality(ScheduleRows(teamArg)) = 1
    /\ RowOf(teamArg).cadence_days = number
    /\ RowOf(teamArg).next_due # RowOf(teamArg).start_date

\* C18: upsertSchedule returns and stores, when it creates a row as when it
\* replaces one, the next due date computed from the new start date, the new
\* cadence and the team's latest check-in; and after any sequence of
\* createCheckin and upsertSchedule calls the stored next_due column of a
\* team equals the next_due getSchedule reports for it.
C18_StoredNextDueIsCurrent ==
    /\ pc = "upsertSchedule"
           => /\ retDate = calculateNextDueDate(normalizeDate(dateA), number,
                                                getLastTeamCheckinDate(teamArg))
              /\ RowOf(teamArg).next_due = retDate
    /\ \A t \in TeamIds :
           Scheduled(t) => RowOf(t).next_due = getSchedule(t).next_due

\* C19: after createCheckin for a team whose stored cadence is a positive
\* integer, the next due date it returns is the one getSchedule reports on
\* the same day, lies strictly after today, the missed count is 0 and the
\* team is not in listDueCheckins.
C19_CheckinClearsDue ==
    (/\ pc = "createCheckin" /\ Scheduled(teamArg)
     /\ PositiveInteger(RowOf(teamArg).cadence_days))
        => /\ retDate = getSchedule(teamArg).next_due
           /\ DateLess(today, retDate)
           /\ getSchedule(teamArg).missed_count = 0
           /\ RowsAbout(listDueCheckins, teamArg) = {}

\* C20: while a team's schedule is unchanged and its cadence a positive
\* integer, a check-in (check-ins come on non-decreasing dates) never moves
\* the next due date earlier than the one reported before it, and the new
\* next due date is at most cadence days after the date of the check-in.
C20_NextDueNeverMovesEarlier ==
    [][(/\ pc' = "createCheckin" /\ Scheduled(teamArg')
        /\ PositiveInteger(RowOf(teamArg').cadence_days))
           => /\ ~DateLess(retDate', getSchedule(teamArg').next_due)
              /\ CalendarDays(today, retDate') <= IntOf(RowOf(teamArg').cadence_days)
      ]_vars

====
